---- MODULE Spec2Model ----
(***************************************************************************)
(* The Fastly service resource of the Terraform provider: the Create,      *)
(* Update, Read and Delete handlers of resourceServiceV1, the per-block    *)
(* set-difference reconciliations they call, and the remote service        *)
(* (versions, locking, activation) the calls act on.                       *)
(*                                                                         *)
(* Every handler is one action.  A handler is a sequence of remote calls;  *)
(* the action threads a run context through the calls in program order   *)
(* and records each call, with its outcome, in the variable calls.         *)
(***************************************************************************)
EXTENDS Integers, Sequences, FiniteSets, TLC

VARIABLES
    st,     \* the recorded Terraform state of the resource (schema.ResourceData after the handler)
    rem,    \* the remote service as the Fastly API holds it
    calls,  \* the remote calls of the last handler run, in issue order
    op      \* the last handler run: which handler, its inputs, its result

vars == <<st, rem, calls, op>>

---------------------------------------------------------------------------
(* Bounds of the model *)

MaxVersions == 2        \* versions a service may accumulate (CloneVersion is capped)
MaxServices == 1        \* services CreateService may create over a behaviour
MaxVal == 2             \* distinct field values of a block element
MaxSetSize == 2         \* elements of a block set drawn as handler input
MaxWafVersions == 3     \* versions of a service whose waf block is added and removed
MaxWafList == 2         \* firewalls in a list given to flattenWAFs
MaxSnippetList == 2     \* snippets in a list given to flattenSnippets

(* Program constants *)

DefaultTTL == 3600      \* schema default of default_ttl, and the API's own default

---------------------------------------------------------------------------
(* Block elements.  An element of a set-typed block is a name, the rest of *)
(* its fields (val) and, for a director, the names of its backends.  For a *)
(* condition an even val is a statement with surrounding white space and   *)
(* val - 1 is the same statement without it.                               *)

Names == {"a", "b"}
Vals == 1..MaxVal

\* A wrong ProcessOrder, to compare with: backends before healthchecks.
ProcessOrderBackendFirst ==
    <<"condition", "domain", "backend", "healthcheck", "director", "header",
      "request_setting", "snippet", "cache_setting", "acl", "dictionary">>

\* The blocks of the resource, in the order Update reconciles them.
ProcessOrder ==
    <<"condition", "domain", "healthcheck", "backend", "director", "header",
      "request_setting", "snippet", "cache_setting", "acl", "dictionary">>

\* The order in which Read refreshes them.
ReadOrder ==
    <<"domain", "backend", "director", "header", "healthcheck", "condition",
      "request_setting", "acl", "snippet", "cache_setting", "dictionary">>

Keys == {ProcessOrder[i] : i \in 1..Len(ProcessOrder)}

\* All set-typed blocks: those above and the Heroku logging endpoints, which
\* their own attribute handler reconciles.
BlockKeys == Keys \cup {"logging_heroku"}

Elem(name, val, backends) == [name |-> name, val |-> val, backends |-> backends]

ElemsOf(key) ==
    CASE key = "director" -> {Elem(n, 1, b) : n \in Names, b \in SUBSET Names}
      [] key = "acl"      -> {Elem(n, 1, {}) : n \in Names}
      [] OTHER            -> {Elem(n, v, {}) : n \in Names, v \in Vals}

NamesIn(S) == {e.name : e \in S}
UniqueNames(S) == Cardinality(NamesIn(S)) = Cardinality(S)

EmptySets == [k \in BlockKeys |-> {}]

---------------------------------------------------------------------------
(* schema.Set: Difference, and List, which returns the elements ordered by *)
(* their hash codes.  HashCode stands for the hash of the serialised       *)
(* element: some fixed injective function of the element.                  *)

NameCode(n) == IF n = "a" THEN 2 ELSE 1

HashCode(e) ==
    (NameCode(e.name) + 3 * e.val) * 4
      + (IF "a" \in e.backends THEN 1 ELSE 0) + (IF "b" \in e.backends THEN 2 ELSE 0)

Difference(S, T) == S \ T

RECURSIVE List(_)
List(S) ==
    IF S = {} THEN <<>>
    ELSE LET e == CHOOSE x \in S : \A y \in S : HashCode(x) <= HashCode(y)
         IN <<e>> \o List(S \ {e})

RECURSIVE NameList(_)
NameList(S) ==
    IF S = {} THEN <<>>
    ELSE LET n == CHOOSE x \in S : \A y \in S : NameCode(x) <= NameCode(y)
         IN <<n>> \o NameList(S \ {n})

---------------------------------------------------------------------------
(* The remote service.  A version holds its settings, its comment and the  *)
(* elements of every block and its firewalls; it is locked once it has been activated and    *)
(* stays locked.  The API refuses to change a locked version, answers 404  *)
(* for a name the version does not hold, refuses a second object of the    *)
(* same name, and refuses to delete a service that has an active version.  *)

NewVersion ==
    [locked |-> FALSE, ttl |-> DefaultTTL, comment |-> "", items |-> EmptySets, wafs |-> {}]

NoService == [id |-> 0, listed |-> FALSE, name |-> "", active |-> 0, versions |-> <<>>]

HasVersion(r, v) == v \in 1..Len(r.versions)
Locked(r, v) == HasVersion(r, v) /\ r.versions[v].locked
ItemsOf(r, v, key) == IF HasVersion(r, v) THEN r.versions[v].items[key] ELSE {}

Reply(res, r) == [res |-> res, rem |-> r]

IsHTTPError(res) == res \in {"http403", "http404", "http409", "http500"}

ApiCreateService(r, id, name) ==
    Reply("ok", [id |-> id, listed |-> TRUE, name |-> name, active |-> 0,
                 versions |-> <<NewVersion>>])

ApiUpdateService(r, name) == Reply("ok", [r EXCEPT !.name = name])

ApiUpdateVersion(r, v, comment) ==
    IF ~HasVersion(r, v) THEN Reply("http404", r)
    ELSE Reply("ok", [r EXCEPT !.versions[v].comment = comment])

ApiCloneVersion(r, v) ==
    IF ~HasVersion(r, v) THEN Reply("http404", r)
    ELSE Reply("ok", [r EXCEPT !.versions = Append(@, [r.versions[v] EXCEPT !.locked = FALSE])])

ApiUpdateSettings(r, v, ttl) ==
    IF ~HasVersion(r, v) THEN Reply("http404", r)
    ELSE IF r.versions[v].locked THEN Reply("http403", r)
    ELSE Reply("ok", [r EXCEPT !.versions[v].ttl = ttl])

ApiDelete(r, v, key, name) ==
    IF ~HasVersion(r, v) THEN Reply("http404", r)
    ELSE IF r.versions[v].locked THEN Reply("http403", r)
    ELSE IF name \notin NamesIn(r.versions[v].items[key]) THEN Reply("http404", r)
    ELSE Reply("ok", [r EXCEPT !.versions[v].items[key] = {e \in @ : e.name # name}])

ApiCreate(r, v, key, name, val) ==
    IF ~HasVersion(r, v) THEN Reply("http404", r)
    ELSE IF r.versions[v].locked THEN Reply("http403", r)
    ELSE IF name \in NamesIn(r.versions[v].items[key]) THEN Reply("http409", r)
    ELSE Reply("ok", [r EXCEPT !.versions[v].items[key] = @ \cup {Elem(name, val, {})}])

ApiCreateDirectorBackend(r, v, director, backend) ==
    IF ~HasVersion(r, v) THEN Reply("http404", r)
    ELSE IF r.versions[v].locked THEN Reply("http403", r)
    ELSE IF director \notin NamesIn(r.versions[v].items["director"]) THEN Reply("http404", r)
    ELSE Reply("ok", [r EXCEPT !.versions[v].items["director"] =
                        {IF e.name = director
                         THEN [e EXCEPT !.backends = @ \cup {backend}] ELSE e : e \in @}])

ApiActivateVersion(r, v) ==
    IF ~HasVersion(r, v) THEN Reply("http404", r)
    ELSE Reply("ok", [r EXCEPT !.active = v, !.versions[v].locked = TRUE])

ApiDeactivateVersion(r, v) ==
    IF ~HasVersion(r, v) THEN Reply("http404", r)
    ELSE Reply("ok", [r EXCEPT !.active = IF @ = v THEN 0 ELSE @])

ApiDeleteService(r) ==
    IF r.active # 0 THEN Reply("http403", r)
    ELSE Reply("ok", [r EXCEPT !.listed = FALSE])

\* The firewalls of a version are records of an id and the fields (val).  The
\* API names a new firewall itself.
WafIds == <<"w1", "w2", "w3">>

WafIdsIn(r, v) == IF HasVersion(r, v) THEN {w.id : w \in r.versions[v].wafs} ELSE {}

FreshWafId(r, v) ==
    WafIds[CHOOSE i \in 1..Len(WafIds) :
             /\ WafIds[i] \notin WafIdsIn(r, v)
             /\ \A j \in 1..(i - 1) : WafIds[j] \in WafIdsIn(r, v)]

ApiGetWAF(r, v, id) ==
    IF id \in WafIdsIn(r, v) THEN Reply("ok", r) ELSE Reply("http404", r)

ApiCreateWAF(r, v, val) ==
    IF ~HasVersion(r, v) THEN Reply("http404", r)
    ELSE IF r.versions[v].locked THEN Reply("http403", r)
    ELSE Reply("ok", [r EXCEPT !.versions[v].wafs = @ \cup {[id |-> FreshWafId(r, v), val |-> val]}])

ApiUpdateWAF(r, v, id, val) ==
    IF ~HasVersion(r, v) THEN Reply("http404", r)
    ELSE IF r.versions[v].locked THEN Reply("http403", r)
    ELSE IF id \notin WafIdsIn(r, v) THEN Reply("http404", r)
    ELSE Reply("ok", [r EXCEPT !.versions[v].wafs =
                        {IF w.id = id THEN [w EXCEPT !.val = val] ELSE w : w \in @}])

ApiDeleteWAF(r, v, id) ==
    IF ~HasVersion(r, v) THEN Reply("http404", r)
    ELSE IF r.versions[v].locked THEN Reply("http403", r)
    ELSE IF id \notin WafIdsIn(r, v) THEN Reply("http404", r)
    ELSE Reply("ok", [r EXCEPT !.versions[v].wafs = {w \in @ : w.id # id}])

\* A call that only reads: ListServices, GetServiceDetails, GetSettings, List*,
\* GetDirectorBackend, ValidateVersion.
ApiRead(r) == Reply("ok", r)

---------------------------------------------------------------------------
(* The run context of a handler: the ResourceData d, the remote, the calls *)
(* issued so far, the outcome of the last call, whether the handler is     *)
(* still running or has returned (nil or an error), and the fault the      *)
(* environment injects: call number failAt of the run fails with failKind  *)
(* and changes nothing (failAt = 0: no injected fault).                    *)

CallRec(opname, ver, key, name, val, res, locked) ==
    [op |-> opname, ver |-> ver, key |-> key, name |-> name, val |-> val,
     res |-> res, locked |-> locked]

Call(ctx, opname, ver, key, name, val, nat) ==
    LET res == IF Len(ctx.calls) + 1 = ctx.failAt THEN ctx.failKind ELSE nat.res
    IN [ctx EXCEPT
          !.rem = IF res = "ok" THEN nat.rem ELSE ctx.rem,
          !.calls = Append(@, CallRec(opname, ver, key, name, val, res, Locked(ctx.rem, ver))),
          !.last = res]

ReturnErr(ctx) == [ctx EXCEPT !.ret = "err"]
ReturnNil(ctx) == [ctx EXCEPT !.ret = "nil"]

\* Sequencing: the next step runs only if the handler has not returned.
Then(ctx, Step(_)) == IF ctx.ret = "run" THEN Step(ctx) ELSE ctx

\* old is the prior state (what d.GetChange and d.HasChange compare d against),
\* lv is Update's latestVersion, initial its initialVersion, force is
\* d.Get("force_destroy"), valid the answer ValidateVersion gives in this run.
NewCtx(d, old, r, failAt, failKind, valid) ==
    [d |-> d, old |-> old, rem |-> r, calls |-> <<>>, last |-> "ok", ret |-> "run",
     lv |-> 0, initial |-> FALSE, force |-> FALSE, failAt |-> failAt,
     failKind |-> failKind, valid |-> valid]

HasChange(ctx, key) == ctx.old.sets[key] # ctx.d.sets[key]

---------------------------------------------------------------------------
(* The set-difference reconciliation of one block: processDomain and its   *)
(* siblings.  remove = old.Difference(new).List(), add =                   *)
(* new.Difference(old).List(); every removed element is deleted by name (a *)
(* 404 is skipped, any other error returns), then every added element is   *)
(* created (any error returns).                                            *)

TrimSpace(val) == IF val % 2 = 0 THEN val - 1 ELSE val

\* The fields a create call sends for element e of block key.
CreateInput(key, e) == IF key = "condition" THEN TrimSpace(e.val) ELSE e.val

\* Two wrong DeleteFailed, to compare with: one that takes no error of a delete
\* for a failure, and one that takes a 404 for a failure too.
DeleteFailedNever(res) == FALSE
DeleteFailedAlso404(res) == res # "ok"

\* err.(*HTTPError) with StatusCode != 404, or any other non-nil error.
DeleteFailed(res) == IF IsHTTPError(res) THEN res # "http404" ELSE res # "ok"

RECURSIVE DeleteLoop(_, _, _, _)
DeleteLoop(ctx, key, ver, lst) ==
    IF lst = <<>> THEN ctx
    ELSE LET e == Head(lst)
             c1 == Call(ctx, "Delete", ver, key, e.name, 0, ApiDelete(ctx.rem, ver, key, e.name))
         IN IF DeleteFailed(c1.last) THEN ReturnErr(c1)
            ELSE DeleteLoop(c1, key, ver, Tail(lst))

RECURSIVE DirectorBackendLoop(_, _, _, _)
DirectorBackendLoop(ctx, ver, director, lst) ==
    IF lst = <<>> THEN ctx
    ELSE LET b == Head(lst)
             c1 == Call(ctx, "CreateDirectorBackend", ver, "director", director, NameCode(b),
                        ApiCreateDirectorBackend(ctx.rem, ver, director, b))
         IN IF c1.last # "ok" THEN ReturnErr(c1)
            ELSE DirectorBackendLoop(c1, ver, director, Tail(lst))

RECURSIVE CreateLoop(_, _, _, _)
CreateLoop(ctx, key, ver, lst) ==
    IF lst = <<>> THEN ctx
    ELSE LET e == Head(lst)
             v == CreateInput(key, e)
             c1 == Call(ctx, "Create", ver, key, e.name, v, ApiCreate(ctx.rem, ver, key, e.name, v))
             c2 == IF c1.last # "ok" THEN ReturnErr(c1)
                   ELSE IF key = "director"
                        THEN DirectorBackendLoop(c1, ver, e.name, NameList(e.backends))
                        ELSE c1
         IN IF c2.ret # "run" THEN c2 ELSE CreateLoop(c2, key, ver, Tail(lst))

\* Two wrong reconciliations, to compare ProcessSet with: one that deletes the
\* whole old set and creates the whole new one, and one that creates before it
\* deletes.
ProcessSetReplaceAll(ctx, key, ver) ==
    LET c1 == DeleteLoop(ctx, key, ver, List(ctx.old.sets[key]))
    IN IF c1.ret # "run" THEN c1 ELSE CreateLoop(c1, key, ver, List(ctx.d.sets[key]))

ProcessSetCreateFirst(ctx, key, ver) ==
    LET os == ctx.old.sets[key]
        ns == ctx.d.sets[key]
        c1 == CreateLoop(ctx, key, ver, List(Difference(ns, os)))
    IN IF c1.ret # "run" THEN c1 ELSE DeleteLoop(c1, key, ver, List(Difference(os, ns)))

ProcessSet(ctx, key, ver) ==
    LET os == ctx.old.sets[key]
        ns == ctx.d.sets[key]
        remove == List(Difference(os, ns))
        add == List(Difference(ns, os))
        c1 == DeleteLoop(ctx, key, ver, remove)
    IN IF c1.ret # "run" THEN c1 ELSE CreateLoop(c1, key, ver, add)

\* processHealthcheck and processBackend are the healthcheck and backend
\* steps that the older Update carries inline.
processCondition(ctx, ver) == ProcessSet(ctx, "condition", ver)
processDomain(ctx, ver) == ProcessSet(ctx, "domain", ver)
processHealthcheck(ctx, ver) == ProcessSet(ctx, "healthcheck", ver)
processBackend(ctx, ver) == ProcessSet(ctx, "backend", ver)
processDirector(ctx, ver) == ProcessSet(ctx, "director", ver)
processHeader(ctx, ver) == ProcessSet(ctx, "header", ver)
processRequestSetting(ctx, ver) == ProcessSet(ctx, "request_setting", ver)
processSnippet(ctx, ver) == ProcessSet(ctx, "snippet", ver)
processCacheSetting(ctx, ver) == ProcessSet(ctx, "cache_setting", ver)
processAcl(ctx, ver) == ProcessSet(ctx, "acl", ver)
processDictionary(ctx, ver) == ProcessSet(ctx, "dictionary", ver)
HerokuProcess(ctx, ver) == ProcessSet(ctx, "logging_heroku", ver)

\* processWAF: the waf block is a list of at most one element.  With a waf
\* in the old and in the new state the firewall is created if GetWAF does not
\* find the recorded waf_id, and then updated in place; with a waf only in
\* the new state it is created; with one only in the old state it is deleted.
createWAF(ctx, ver, wf) ==
    LET c1 == Call(ctx, "CreateWAF", ver, "waf", "", wf.val, ApiCreateWAF(ctx.rem, ver, wf.val))
    IN IF c1.last # "ok" THEN ReturnErr(c1) ELSE c1

wAFExists(ctx) == ctx.last = "ok"

UpdateWAF(ctx, ver, id, wf) ==
    LET c1 == Call(ctx, "UpdateWAF", ver, "waf", id, wf.val, ApiUpdateWAF(ctx.rem, ver, id, wf.val))
    IN IF c1.last # "ok" THEN ReturnErr(c1) ELSE c1

\* Another wrong processWAF, to compare with: it leaves a removed firewall.
processWAFNoDelete(ctx, ver) ==
    LET oldWAFVal == ctx.old.waf
        newWAFVal == ctx.d.waf
    IN IF Len(oldWAFVal) > 0 /\ Len(newWAFVal) > 0
       THEN UpdateWAF(ctx, ver, newWAFVal[1].waf_id, newWAFVal[1])
       ELSE IF Len(newWAFVal) > 0 THEN createWAF(ctx, ver, newWAFVal[1])
       ELSE ctx

\* A wrong processWAF, to compare with: it replaces a changed firewall by a
\* delete and a create.
processWAFReplace(ctx, ver) ==
    LET oldWAFVal == ctx.old.waf
        newWAFVal == ctx.d.waf
        id == oldWAFVal[1].waf_id
        c1 == Call(ctx, "DeleteWAF", ver, "waf", id, 0, ApiDeleteWAF(ctx.rem, ver, id))
    IN IF Len(oldWAFVal) > 0
       THEN (IF DeleteFailed(c1.last) THEN ReturnErr(c1)
             ELSE IF Len(newWAFVal) > 0 THEN createWAF(c1, ver, newWAFVal[1]) ELSE c1)
       ELSE IF Len(newWAFVal) > 0 THEN createWAF(ctx, ver, newWAFVal[1])
       ELSE ctx

processWAF(ctx, ver) ==
    LET oldWAFVal == ctx.old.waf
        newWAFVal == ctx.d.waf
    IN IF Len(oldWAFVal) > 0 /\ Len(newWAFVal) > 0
       THEN LET wf == newWAFVal[1]
                c1 == Call(ctx, "GetWAF", ver, "waf", wf.waf_id, 0,
                           ApiGetWAF(ctx.rem, ver, wf.waf_id))
                id == IF wAFExists(c1) THEN wf.waf_id ELSE FreshWafId(c1.rem, ver)
                c2 == IF wAFExists(c1) THEN c1 ELSE createWAF(c1, ver, wf)
            IN IF c2.ret # "run" THEN c2 ELSE UpdateWAF(c2, ver, id, wf)
       ELSE IF Len(newWAFVal) > 0 THEN createWAF(ctx, ver, newWAFVal[1])
       ELSE IF Len(oldWAFVal) > 0
            THEN LET id == oldWAFVal[1].waf_id
                     c1 == Call(ctx, "DeleteWAF", ver, "waf", id, 0, ApiDeleteWAF(ctx.rem, ver, id))
                 IN IF DeleteFailed(c1.last) THEN ReturnErr(c1) ELSE c1
       ELSE ctx

Process(ctx, key, ver) ==
    CASE key = "condition"       -> processCondition(ctx, ver)
      [] key = "domain"          -> processDomain(ctx, ver)
      [] key = "healthcheck"     -> processHealthcheck(ctx, ver)
      [] key = "backend"         -> processBackend(ctx, ver)
      [] key = "director"        -> processDirector(ctx, ver)
      [] key = "header"          -> processHeader(ctx, ver)
      [] key = "request_setting" -> processRequestSetting(ctx, ver)
      [] key = "snippet"         -> processSnippet(ctx, ver)
      [] key = "cache_setting"   -> processCacheSetting(ctx, ver)
      [] key = "acl"             -> processAcl(ctx, ver)
      [] key = "dictionary"      -> processDictionary(ctx, ver)
      [] key = "logging_heroku"  -> HerokuProcess(ctx, ver)
      [] key = "waf"             -> processWAF(ctx, ver)

---------------------------------------------------------------------------
(* ResourceData.  The state of the resource is a record of its id (0: no   *)
(* id), the computed active_version and cloned_version, and the configured *)
(* attributes as last applied or refreshed.  A configuration gives the     *)
(* configured attributes.  d.Get reads the configured attributes from the  *)
(* configuration and the computed ones from the prior state.  The          *)
(* attribute force_destroy is read by Delete alone and any apply can set   *)
(* it, so the state does not carry it: Delete draws the value it reads.    *)
(* tainted marks a resource whose Create returned an error after it had    *)
(* set the id: the framework replaces such a resource, it never updates    *)
(* it.                                                                     *)

ZeroState ==
    [id |-> 0, active_version |-> 0, cloned_version |-> 0, name |-> "",
     version_comment |-> "", activate |-> FALSE, default_ttl |-> 0, sets |-> EmptySets,
     waf |-> <<>>, tainted |-> FALSE]

Config(name, vc, activate, ttl, sets) ==
    [name |-> name, version_comment |-> vc, activate |-> activate,
     default_ttl |-> ttl, sets |-> sets]

Planned(s, c) ==
    [s EXCEPT !.name = c.name, !.version_comment = c.version_comment,
              !.activate = c.activate, !.default_ttl = c.default_ttl, !.sets = c.sets]

---------------------------------------------------------------------------
(* resourceServiceV1Read *)

\* A wrong findService, to compare with: it takes the service for found.
findServiceAssumeFound(ctx) ==
    LET c1 == Call(ctx, "ListServices", 0, "", "", 0, ApiRead(ctx.rem))
    IN IF c1.last # "ok" THEN ReturnErr(c1) ELSE c1

\* findService: ListServices, then a search for the id.
findService(ctx) ==
    LET c1 == Call(ctx, "ListServices", 0, "", "", 0, ApiRead(ctx.rem))
    IN IF c1.last # "ok" THEN ReturnErr(c1)
       ELSE IF ~(c1.rem.listed /\ c1.rem.id = c1.d.id)
            THEN [c1 EXCEPT !.last = "notfound"]
            ELSE c1

\* The version GetServiceDetails reports as s.Version: the active version, or
\* the latest one when none is active.
DetailVersion(r) == IF r.active # 0 THEN r.active ELSE Len(r.versions)

\* flattenDirectors keeps, of a director's backends, those GetDirectorBackend
\* found for a backend of the version's backend list.
flattenDirectors(directors, backendNames) ==
    {[e EXCEPT !.backends = @ \cap backendNames] : e \in directors}

flatten(key, r, v) ==
    IF key = "director"
    THEN flattenDirectors(ItemsOf(r, v, "director"), NamesIn(ItemsOf(r, v, "backend")))
    ELSE ItemsOf(r, v, key)

RECURSIVE ReadBlocks(_, _, _)
ReadBlocks(ctx, v, i) ==
    IF i > Len(ReadOrder) THEN ctx
    ELSE LET key == ReadOrder[i]
             c1 == Call(ctx, "List", v, key, "", 0, ApiRead(ctx.rem))
         IN IF c1.last # "ok" THEN ReturnErr(c1)
            ELSE ReadBlocks([c1 EXCEPT !.d.sets[key] = flatten(key, c1.rem, v)], v, i + 1)

ReadDetails(ctx) ==
    LET c1 == Call(ctx, "GetServiceDetails", 0, "", "", 0, ApiRead(ctx.rem))
        r == c1.rem
        c2 == [c1 EXCEPT !.d.name = r.name,
                         !.d.version_comment = r.versions[DetailVersion(r)].comment,
                         !.d.active_version = r.active]
    IN IF c1.last # "ok" THEN ReturnErr(c1) ELSE c2

ReadSettings(ctx) ==
    LET v == ctx.rem.active
        c1 == Call(ctx, "GetSettings", v, "", "", 0, ApiRead(ctx.rem))
    IN IF v = 0 THEN ctx
       ELSE IF c1.last # "ok" THEN ReturnErr(c1)
       ELSE [c1 EXCEPT !.d.default_ttl = c1.rem.versions[v].ttl]

ReadActive(ctx) == IF ctx.rem.active = 0 THEN ctx ELSE ReadBlocks(ctx, ctx.rem.active, 1)

resourceServiceV1Read(ctx) ==
    LET c1 == findService(ctx)
    IN IF c1.ret # "run" THEN c1
       ELSE IF c1.last = "notfound" THEN ReturnNil([c1 EXCEPT !.d.id = 0])
       ELSE LET c2 == Then(Then(Then(c1, ReadDetails), ReadSettings), ReadActive)
            IN IF c2.ret = "run" THEN ReturnNil(c2) ELSE c2

---------------------------------------------------------------------------
(* resourceServiceV1Update *)

\* d.HasChange over the versioned attributes.
needsChange(ctx) ==
    \/ \E key \in Keys : HasChange(ctx, key)
    \/ ctx.old.default_ttl # ctx.d.default_ttl

UpdateNameComment(ctx) ==
    LET c1 == Call(ctx, "UpdateService", 0, "", "", 0, ApiUpdateService(ctx.rem, ctx.d.name))
    IN IF ctx.old.name = ctx.d.name THEN ctx
       ELSE IF c1.last # "ok" THEN ReturnErr(c1) ELSE c1

\* A wrong LatestVersion, to compare with: active_version as it is.
LatestVersionAsIs(ctx) == ctx.d.active_version

\* d.Get("active_version"), or 1 for a service that has none.
LatestVersion(ctx) == IF ctx.d.active_version = 0 THEN 1 ELSE ctx.d.active_version

UpdateVersionComment(ctx) ==
    LET c1 == Call(ctx, "UpdateVersion", LatestVersion(ctx), "", "", 0,
                   ApiUpdateVersion(ctx.rem, LatestVersion(ctx), ctx.d.version_comment))
    IN IF ctx.old.version_comment # ctx.d.version_comment /\ ~needsChange(ctx)
       THEN (IF c1.last # "ok" THEN ReturnErr(c1) ELSE c1)
       ELSE ctx

CloneComment(ctx) ==
    LET c1 == Call(ctx, "UpdateVersion", ctx.lv, "", "", 0,
                   ApiUpdateVersion(ctx.rem, ctx.lv, ctx.d.version_comment))
    IN IF ctx.d.version_comment = "" THEN ctx
       ELSE IF c1.last # "ok" THEN ReturnErr(c1) ELSE c1

\* A wrong DraftVersion, to compare with: it clones also when no version is
\* active.
DraftVersionAlwaysClone(ctx) ==
    LET from == IF ctx.d.active_version = 0 THEN 1 ELSE ctx.d.active_version
        c1 == Call(ctx, "CloneVersion", from, "", "", 0, ApiCloneVersion(ctx.rem, from))
        number == Len(c1.rem.versions)
    IN IF c1.last # "ok" THEN ReturnErr(c1)
       ELSE [c1 EXCEPT !.lv = number, !.d.cloned_version = number]

\* Another wrong DraftVersion, to compare with: it does not record the
\* clone's number in cloned_version.
DraftVersionUnrecorded(ctx) ==
    LET active == ctx.d.active_version
        c1 == Call(ctx, "CloneVersion", active, "", "", 0, ApiCloneVersion(ctx.rem, active))
        number == Len(c1.rem.versions)
        c2 == [c1 EXCEPT !.lv = number]
    IN IF active = 0 THEN [ctx EXCEPT !.lv = 1, !.initial = TRUE]
       ELSE IF c1.last # "ok" THEN ReturnErr(c1)
       ELSE CloneComment(c2)

\* The version Update will change: version 1 when active_version is 0, else
\* a clone of the active version.
DraftVersion(ctx) ==
    LET active == ctx.d.active_version
        c1 == Call(ctx, "CloneVersion", active, "", "", 0, ApiCloneVersion(ctx.rem, active))
        number == Len(c1.rem.versions)
        c2 == [c1 EXCEPT !.lv = number, !.d.cloned_version = number]
    IN IF active = 0 THEN [ctx EXCEPT !.lv = 1, !.initial = TRUE]
       ELSE IF c1.last # "ok" THEN ReturnErr(c1)
       ELSE CloneComment(c2)

UpdateSettings(ctx) ==
    LET c1 == Call(ctx, "UpdateSettings", ctx.lv, "", "", 0,
                   ApiUpdateSettings(ctx.rem, ctx.lv, ctx.d.default_ttl))
    IN IF ctx.old.default_ttl # ctx.d.default_ttl \/ (ctx.d.default_ttl = 0 /\ ctx.initial)
       THEN (IF c1.last # "ok" THEN ReturnErr(c1) ELSE c1)
       ELSE ctx

RECURSIVE ProcessBlocks(_, _)
ProcessBlocks(ctx, i) ==
    IF i > Len(ProcessOrder) \/ ctx.ret # "run" THEN ctx
    ELSE LET key == ProcessOrder[i]
         IN ProcessBlocks(IF HasChange(ctx, key) THEN Process(ctx, key, ctx.lv) ELSE ctx, i + 1)

ProcessAll(ctx) == ProcessBlocks(ctx, 1)

\* A wrong ValidateVersion, to compare with: it does not look at valid.
ValidateVersionUnchecked(ctx) ==
    LET c1 == Call(ctx, "ValidateVersion", ctx.lv, "", "", IF ctx.valid THEN 1 ELSE 0,
                   ApiRead(ctx.rem))
    IN IF c1.last # "ok" THEN ReturnErr(c1) ELSE c1

\* ValidateVersion returns (valid, msg, err); the call record keeps valid in val.
ValidateVersion(ctx) ==
    LET c1 == Call(ctx, "ValidateVersion", ctx.lv, "", "", IF ctx.valid THEN 1 ELSE 0,
                   ApiRead(ctx.rem))
    IN IF c1.last # "ok" THEN ReturnErr(c1)
       ELSE IF ~ctx.valid THEN ReturnErr(c1)
       ELSE c1

\* A wrong ActivateVersion, to compare with: it does not look at activate.
ActivateVersionAlways(ctx) ==
    LET c1 == Call(ctx, "ActivateVersion", ctx.lv, "", "", 0, ApiActivateVersion(ctx.rem, ctx.lv))
    IN IF c1.last # "ok" THEN ReturnErr(c1)
       ELSE [c1 EXCEPT !.d.active_version = ctx.lv]

ActivateVersion(ctx) ==
    LET c1 == Call(ctx, "ActivateVersion", ctx.lv, "", "", 0, ApiActivateVersion(ctx.rem, ctx.lv))
    IN IF ~ctx.d.activate THEN ctx
       ELSE IF c1.last # "ok" THEN ReturnErr(c1)
       ELSE [c1 EXCEPT !.d.active_version = ctx.lv]

\* A wrong UpdateVersioned, to compare with: it does not look at needsChange.
UpdateVersionedAlways(ctx) ==
    Then(Then(Then(Then(Then(ctx, DraftVersion), UpdateSettings), ProcessAll),
         ValidateVersion), ActivateVersion)

UpdateVersioned(ctx) ==
    IF ~needsChange(ctx) THEN ctx
    ELSE Then(Then(Then(Then(Then(ctx, DraftVersion), UpdateSettings), ProcessAll),
              ValidateVersion), ActivateVersion)

resourceServiceV1Update(ctx) ==
    Then(Then(Then(Then(ctx, UpdateNameComment), UpdateVersionComment), UpdateVersioned),
         resourceServiceV1Read)

---------------------------------------------------------------------------
(* resourceServiceV1Create *)

resourceServiceV1Create(ctx, id) ==
    LET c1 == Call(ctx, "CreateService", 0, "", "", 0, ApiCreateService(ctx.rem, id, ctx.d.name))
    IN IF c1.last # "ok" THEN ReturnErr(c1)
       ELSE resourceServiceV1Update([c1 EXCEPT !.d.id = id])

---------------------------------------------------------------------------
(* resourceServiceV1Delete *)

\* A wrong DeactivateActive, to compare with: it does not look at force_destroy.
DeactivateAlways(ctx) ==
    LET c1 == Call(ctx, "GetServiceDetails", 0, "", "", 0, ApiRead(ctx.rem))
        active == c1.rem.active
        c2 == Call(c1, "DeactivateVersion", active, "", "", 0, ApiDeactivateVersion(c1.rem, active))
    IN IF c1.last # "ok" THEN ReturnErr(c1)
       ELSE IF active = 0 THEN c1
       ELSE IF c2.last # "ok" THEN ReturnErr(c2) ELSE c2

DeactivateActive(ctx) ==
    LET c1 == Call(ctx, "GetServiceDetails", 0, "", "", 0, ApiRead(ctx.rem))
        active == c1.rem.active
        c2 == Call(c1, "DeactivateVersion", active, "", "", 0, ApiDeactivateVersion(c1.rem, active))
    IN IF ~ctx.force THEN ctx
       ELSE IF c1.last # "ok" THEN ReturnErr(c1)
       ELSE IF active = 0 THEN c1
       ELSE IF c2.last # "ok" THEN ReturnErr(c2) ELSE c2

DeleteService(ctx) ==
    LET c1 == Call(ctx, "DeleteService", 0, "", "", 0, ApiDeleteService(ctx.rem))
    IN IF c1.last # "ok" THEN ReturnErr(c1) ELSE c1

\* A wrong ConfirmDeleted, to compare with: it clears the id whatever
\* findService answered.
ConfirmDeletedUnchecked(ctx) ==
    LET c1 == findService(ctx)
    IN ReturnNil([c1 EXCEPT !.d.id = 0])

ConfirmDeleted(ctx) ==
    LET c1 == findService(ctx)
    IN IF c1.ret # "run" THEN c1
       ELSE IF c1.last = "notfound" THEN ReturnNil([c1 EXCEPT !.d.id = 0])
       ELSE ReturnErr(c1)

resourceServiceV1Delete(ctx) ==
    Then(Then(Then(ctx, DeactivateActive), DeleteService), ConfirmDeleted)

---------------------------------------------------------------------------
(* The life cycle of one resource.  The plugin framework calls Create for  *)
(* a resource without an id and Update, Read or Delete for one with an id; *)
(* after Create or Update it records d (also when the handler returned an  *)
(* error), after a failed Read or Delete it keeps the state it had, and a  *)
(* resource whose id was cleared is dropped from the state.                *)

ServiceName == "svc"
TTLs == {DefaultTTL, 0}

\* The configurations of the life cycle: the domain block is required, so it
\* holds an element; the other blocks stay empty.
LifeDomains == {{e} : e \in {x \in ElemsOf("domain") : x.name = "a"}}

LifeConfigs ==
    {Config(ServiceName, "", a, t, [k \in BlockKeys |-> IF k = "domain" THEN sd ELSE {}]) :
        a \in BOOLEAN, t \in TTLs, sd \in LifeDomains}

\* The faults of a run that issues n calls when nothing fails: none,
\* ValidateVersion answering "not valid", or call number failAt failing.
Faults(n) ==
    {[failAt |-> 0, valid |-> v] : v \in BOOLEAN}
      \cup {[failAt |-> k, valid |-> TRUE] : k \in 1..n}

Saved(ctx) == IF ctx.d.id = 0 THEN ZeroState ELSE ctx.d

\* What is kept of a run: the handler, its inputs (ctx0 is the context it
\* started from; remActive is the version the remote had active then,
\* remListed whether the service existed then) and its result.
OpRec(kind, ctx0, ctx) ==
    [kind |-> kind, ret |-> ctx.ret, activate |-> ctx0.d.activate,
     force |-> ctx0.force, needs |-> needsChange(ctx0),
     valid |-> ctx.valid, prevActive |-> ctx0.old.active_version, prevId |-> ctx0.old.id,
     remActive |-> ctx0.rem.active, remListed |-> ctx0.rem.listed, lv |-> ctx.lv]

\* Between two runs no handler is running and the log of calls is empty.
Idle ==
    [kind |-> "none", ret |-> "nil", activate |-> FALSE, force |-> FALSE,
     needs |-> FALSE, valid |-> TRUE, prevActive |-> 0, prevId |-> 0, remActive |-> 0,
     remListed |-> FALSE, lv |-> 0]

Init ==
    /\ st = ZeroState
    /\ rem = NoService
    /\ calls = <<>>
    /\ op = Idle

Create(c) ==
    /\ op = Idle
    /\ st.id = 0
    /\ rem.id < MaxServices
    /\ LET Run(f) == NewCtx(Planned(ZeroState, c), ZeroState, rem, f.failAt, "http500", f.valid)
           Handler(ctx0) == resourceServiceV1Create(ctx0, rem.id + 1)
           n == Len(Handler(Run([failAt |-> 0, valid |-> TRUE])).calls)
       IN \E f \in Faults(n) :
            LET ctx == Handler(Run(f))
            IN /\ st' = [Saved(ctx) EXCEPT !.tainted = (ctx.ret = "err" /\ ctx.d.id # 0)]
               /\ rem' = ctx.rem
               /\ calls' = ctx.calls
               /\ op' = OpRec("Create", Run(f), ctx)

Update(c) ==
    /\ op = Idle
    /\ st.id # 0
    /\ ~st.tainted
    /\ LET Run(f) == NewCtx(Planned(st, c), st, rem, f.failAt, "http500", f.valid)
           n == Len(resourceServiceV1Update(Run([failAt |-> 0, valid |-> TRUE])).calls)
       IN /\ needsChange(Run([failAt |-> 0, valid |-> TRUE])) /\ st.active_version # 0
               => Len(rem.versions) < MaxVersions
          /\ \E f \in Faults(n) :
               LET ctx == resourceServiceV1Update(Run(f))
               IN /\ st' = Saved(ctx)
                  /\ rem' = ctx.rem
                  /\ calls' = ctx.calls
                  /\ op' = OpRec("Update", Run(f), ctx)

Read ==
    /\ op = Idle
    /\ st.id # 0
    /\ LET Run(failAt) == NewCtx(st, st, rem, failAt, "http500", TRUE)
           n == Len(resourceServiceV1Read(Run(0)).calls)
       IN \E failAt \in 0..n :
            LET ctx == resourceServiceV1Read(Run(failAt))
            IN /\ st' = IF ctx.ret = "nil" THEN Saved(ctx) ELSE st
               /\ rem' = ctx.rem
               /\ calls' = ctx.calls
               /\ op' = OpRec("Read", Run(failAt), ctx)

Delete(force) ==
    /\ op = Idle
    /\ st.id # 0
    /\ LET Run(failAt) == [NewCtx(st, st, rem, failAt, "http500", TRUE) EXCEPT !.force = force]
           n == Len(resourceServiceV1Delete(Run(0)).calls)
       IN \E failAt \in 0..n :
            LET ctx == resourceServiceV1Delete(Run(failAt))
            IN /\ st' = IF ctx.ret = "nil" THEN Saved(ctx) ELSE st
               /\ rem' = ctx.rem
               /\ calls' = ctx.calls
               /\ op' = OpRec("Delete", Run(failAt), ctx)

\* The service is deactivated and deleted by someone else.
DestroyedOutside ==
    /\ op = Idle
    /\ rem.listed
    /\ rem' = [rem EXCEPT !.active = 0, !.listed = FALSE]
    /\ UNCHANGED <<st, calls, op>>

\* The run ends; the next one starts with an empty log of calls.
EndRun ==
    /\ op # Idle
    /\ calls' = <<>>
    /\ op' = Idle
    /\ UNCHANGED <<st, rem>>

Next ==
    \/ \E c \in LifeConfigs : Create(c)
    \/ \E c \in LifeConfigs : Update(c)
    \/ Read
    \/ \E force \in BOOLEAN : Delete(force)
    \/ DestroyedOutside
    \/ EndRun

Spec == Init /\ [][Next]_vars

---------------------------------------------------------------------------
(* Properties of the life cycle (specification Spec).  They speak of the   *)
(* last run: op, its log calls, and the state and remote it left.          *)

Issued(opname) == {i \in 1..Len(calls) : calls[i].op = opname}

AllOk == \A i \in 1..Len(calls) : calls[i].res = "ok"

\* The calls that change what a version holds.
Mutations == {"Delete", "Create", "CreateDirectorBackend", "UpdateSettings"}

ValidatedOk(i) ==
    calls[i].op = "ValidateVersion" /\ calls[i].res = "ok" /\ calls[i].val = 1

\* C1, as the specification states it: every sub-resource create or delete
\* call and every UpdateSettings call that Create or Update issues targets a
\* version that is unlocked, never one that is or has been active.
C1_MutationsTargetUnlocked ==
    op.kind \in {"Create", "Update"} =>
        \A i \in 1..Len(calls) : calls[i].op \in Mutations => ~calls[i].locked

\* C2: ActivateVersion is issued only after a ValidateVersion of the same
\* version in the same run answered valid without error; when ValidateVersion
\* fails or answers not valid, the run returns an error at once, issues no
\* ActivateVersion, and the recorded active_version stays what it was.
C2_ActivateOnlyAfterValid ==
    op.kind \in {"Create", "Update"} =>
        /\ \A i \in Issued("ActivateVersion") :
              \E j \in 1..(i - 1) : ValidatedOk(j) /\ calls[j].ver = calls[i].ver
        /\ \A j \in Issued("ValidateVersion") :
              ~ValidatedOk(j) =>
                  /\ op.ret = "err"
                  /\ j = Len(calls)
                  /\ Issued("ActivateVersion") = {}
                  /\ st.active_version = op.prevActive

\* An Update of an active service whose draft ValidateVersion finds not valid.
C2_Witness ==
    /\ op.kind = "Update" /\ op.activate /\ op.prevActive # 0 /\ op.ret = "err"
    /\ \E j \in Issued("ValidateVersion") : calls[j].res = "ok" /\ calls[j].val = 0

\* C7: an Update with a versioned change and activate = false changes and
\* validates a draft (when its calls succeed) but issues no ActivateVersion
\* and does not advance the recorded active_version; with activate = true a
\* valid ValidateVersion is followed by ActivateVersion of that draft, and
\* when that succeeds (and the service still exists) the recorded
\* active_version is the draft's number.
C7_ActivateFlag ==
    op.kind = "Update" /\ op.needs =>
        /\ ~op.activate =>
              /\ Issued("ActivateVersion") = {}
              /\ st.active_version <= op.prevActive
              /\ op.lv # 0 => st.active_version # op.lv
              /\ AllOk =>
                    /\ \E i \in 1..Len(calls) :
                          calls[i].op \in Mutations /\ calls[i].ver = op.lv
                    /\ \E i \in Issued("ValidateVersion") : calls[i].ver = op.lv
        /\ op.activate =>
              \A j \in Issued("ValidateVersion") :
                  ValidatedOk(j) =>
                      /\ j < Len(calls)
                      /\ calls[j + 1].op = "ActivateVersion"
                      /\ calls[j + 1].ver = op.lv /\ calls[j].ver = op.lv
                      /\ calls[j + 1].res = "ok" /\ rem.listed => st.active_version = op.lv

\* An Update with activate = false that drafted version 2 of a service whose
\* version 1 is active, all calls succeeding.
C7_Witness ==
    /\ op.kind = "Update" /\ op.needs /\ ~op.activate /\ AllOk /\ op.ret = "nil"
    /\ op.prevActive = 1 /\ op.lv = 2 /\ st.active_version = 1
    /\ Issued("ValidateVersion") # {}

\* C8: a Delete with force_destroy = true of a service that has an active
\* version issues DeleteService only after a successful DeactivateVersion of
\* that version, and when all its calls succeed the service is gone and the
\* id cleared; a Delete with force_destroy = false issues no
\* DeactivateVersion, and if the service has an active version it returns an
\* error, the service still exists and the id stays.
C8_ForceDestroy ==
    op.kind = "Delete" =>
        /\ op.force /\ op.remActive # 0 =>
              \A i \in Issued("DeleteService") :
                  \E j \in Issued("DeactivateVersion") :
                      j < i /\ calls[j].ver = op.remActive /\ calls[j].res = "ok"
        /\ op.force /\ AllOk =>
              Issued("DeleteService") # {} /\ op.ret = "nil" /\ st.id = 0 /\ ~rem.listed
        /\ ~op.force =>
              /\ Issued("DeactivateVersion") = {}
              /\ op.remActive # 0 =>
                    /\ op.ret = "err"
                    /\ op.remListed => rem.listed
                    /\ rem.active = op.remActive
                    /\ st.id # 0 /\ st.id = op.prevId

\* A Delete with force_destroy = false of a service with an active version:
\* DeleteService was issued and refused.
C8_Witness ==
    /\ op.kind = "Delete" /\ ~op.force /\ op.remActive # 0 /\ op.ret = "err"
    /\ op.remListed /\ rem.listed /\ st.id # 0
    /\ \E i \in Issued("DeleteService") : calls[i].res = "http403"

\* C9: Read first lists the services; when the service is not in the list it
\* clears the id and returns nil without any further call; when ListServices
\* fails it returns an error, issues no further call and keeps the id.
C9_ReadOfMissingService ==
    op.kind = "Read" =>
        /\ Len(calls) >= 1 /\ calls[1].op = "ListServices"
        /\ calls[1].res = "ok" /\ ~rem.listed =>
              st.id = 0 /\ op.ret = "nil" /\ Len(calls) = 1
        /\ calls[1].res # "ok" =>
              op.ret = "err" /\ Len(calls) = 1 /\ st.id # 0 /\ st.id = op.prevId

\* A Read of a resource whose service was destroyed outside.
C9_Witness ==
    /\ op.kind = "Read" /\ op.prevId # 0 /\ ~rem.listed
    /\ calls[1].res = "ok" /\ st.id = 0

\* C10: with activate = true, a valid draft and every call succeeding, Create
\* issues no CloneVersion and leaves active_version = 1; an Update with a
\* versioned change of a service that has an active version (and still
\* exists) issues exactly one CloneVersion, of the active version, and leaves
\* active_version = the clone's number, which is 2 for the first clone.
C10_VersionNumbers ==
    op.activate /\ op.valid /\ AllOk =>
        /\ op.kind = "Create" => Issued("CloneVersion") = {} /\ st.active_version = 1
        /\ op.kind = "Update" /\ op.needs /\ op.prevActive # 0 /\ rem.listed =>
              /\ Cardinality(Issued("CloneVersion")) = 1
              /\ \A i \in Issued("CloneVersion") : calls[i].ver = op.prevActive
              /\ op.lv = Len(rem.versions) /\ op.lv > op.prevActive
              /\ st.active_version = op.lv
              /\ Len(rem.versions) = 2 => st.active_version = 2

\* The first versioned Update after a Create, both with activate = true.
C10_Witness ==
    /\ op.kind = "Update" /\ op.needs /\ op.activate /\ op.valid /\ AllOk /\ rem.listed
    /\ op.prevActive = 1 /\ Cardinality(Issued("CloneVersion")) = 1
    /\ st.active_version = 2

---------------------------------------------------------------------------
(* One reconciliation on its own.  The state holds the old value of one    *)
(* block, the configuration gives the new one, and version 1 is the        *)
(* unlocked draft.  The draft holds the old value, or nothing (the         *)
(* elements were removed outside Terraform), or already the new value.     *)

\* The blocks whose reconciliation is drawn: all but healthcheck and backend,
\* whose process functions Update calls but whose code is not at hand.
ProcessKeys == (BlockKeys \ {"healthcheck", "backend"}) \cup {"waf"}

\* An injected fault is a server error or an error that is no HTTP error; a
\* 404 is what the remote answers for an element that is not there.
FaultKinds == {"http500", "other"}

SetsOf(key) == {S \in SUBSET ElemsOf(key) : Cardinality(S) <= MaxSetSize}

Drafts(O, N) == {S \in {O, {}, N} : UniqueNames(S)}

\* A waf block of the old state has its computed waf_id; the new value keeps it.
OldWafs == {<<>>} \cup {<<[val |-> v, waf_id |-> WafIds[i]]>> : v \in Vals, i \in 1..2}

NewWafs(O) ==
    {<<>>} \cup {<<[val |-> v, waf_id |-> IF O = <<>> THEN "" ELSE O[1].waf_id]>> : v \in Vals}

WafDrafts(O) ==
    {{}} \cup (IF O = <<>> THEN {} ELSE {{[id |-> O[1].waf_id, val |-> O[1].val]}})

DraftService(version) ==
    [id |-> 1, listed |-> TRUE, name |-> ServiceName, active |-> 0, versions |-> <<version>>]

Drawn(key, new, draft) ==
    [kind |-> "drawn", key |-> key, new |-> new, draft |-> draft, ret |-> "run"]

InitProcess ==
    /\ calls = <<>>
    /\ \E key \in ProcessKeys :
         \/ /\ key # "waf"
            /\ \E O \in SetsOf(key), N \in SetsOf(key) : \E D \in Drafts(O, N) :
                 /\ st = [ZeroState EXCEPT !.id = 1, !.name = ServiceName, !.sets[key] = O]
                 /\ rem = DraftService([NewVersion EXCEPT !.items[key] = D])
                 /\ op = Drawn(key, N, D)
         \/ /\ key = "waf"
            /\ \E O \in OldWafs : \E N \in NewWafs(O), D \in WafDrafts(O) :
                 /\ st = [ZeroState EXCEPT !.id = 1, !.name = ServiceName, !.waf = O]
                 /\ rem = DraftService([NewVersion EXCEPT !.wafs = D])
                 /\ op = Drawn(key, N, D)

RunProcess ==
    /\ op.kind = "drawn"
    /\ LET d == IF op.key = "waf" THEN [st EXCEPT !.waf = op.new]
                ELSE [st EXCEPT !.sets[op.key] = op.new]
           Run(failAt, failKind) == NewCtx(d, st, rem, failAt, failKind, TRUE)
           n == Len(Process(Run(0, "http500"), op.key, 1).calls)
       IN \E failAt \in 0..n, failKind \in FaultKinds :
            /\ failAt = 0 => failKind = "http500"
            /\ LET ctx == Process(Run(failAt, failKind), op.key, 1)
               IN /\ rem' = ctx.rem
                  /\ calls' = ctx.calls
                  /\ op' = [op EXCEPT !.kind = "Process",
                                      !.ret = IF ctx.ret = "err" THEN "err" ELSE "nil"]
                  /\ UNCHANGED st

NextProcess == RunProcess

SpecProcess == InitProcess /\ [][NextProcess]_vars

---------------------------------------------------------------------------
(* Properties of one reconciliation (specification SpecProcess): the old   *)
(* value is in st, the new one in op.new, the draft's first content in     *)
(* op.draft.                                                               *)

SetRun == op.kind = "Process" /\ op.key # "waf"

WafRun == op.kind = "Process" /\ op.key = "waf"

\* C3: a reconciliation with old set O and new set N that returns nil has
\* issued one delete call, by name, for each element of O \ N and one create
\* call for each element of N \ O, and no other call; one that an error
\* stopped has issued some of these calls and no other.  So an element of
\* both O and N gets no call.
C3_DeleteRemovedCreateAdded ==
    SetRun =>
        LET O == st.sets[op.key]
            N == op.new
            dels(n) == {i \in Issued("Delete") : calls[i].name = n}
            removed(n) == {e \in O \ N : e.name = n}
            cres(n, v) == {i \in Issued("Create") : calls[i].name = n /\ calls[i].val = v}
            added(n, v) == {e \in N \ O : e.name = n /\ CreateInput(op.key, e) = v}
        IN /\ \A i \in 1..Len(calls) :
                 /\ calls[i].op \in {"Delete", "Create", "CreateDirectorBackend"}
                 /\ calls[i].key = op.key /\ calls[i].ver = 1
           /\ \A n \in Names :
                 /\ Cardinality(dels(n)) <= Cardinality(removed(n))
                 /\ op.ret = "nil" => Cardinality(dels(n)) = Cardinality(removed(n))
           /\ \A n \in Names, v \in Vals :
                 /\ Cardinality(cres(n, v)) <= Cardinality(added(n, v))
                 /\ op.ret = "nil" => Cardinality(cres(n, v)) = Cardinality(added(n, v))
           /\ O = N => calls = <<>>

\* A run that returned nil with an element to delete, one to create and one
\* to keep.
C3_Witness ==
    /\ SetRun /\ op.ret = "nil"
    /\ st.sets[op.key] \ op.new # {} /\ op.new \ st.sets[op.key] # {}
    /\ st.sets[op.key] \cap op.new # {}
    /\ Issued("Delete") # {} /\ Issued("Create") # {}

\* C4: within one reconciliation every delete call comes before the first
\* create call, so an element that changed under the same name is deleted by
\* name before its replacement is created.
C4_DeletesBeforeCreates ==
    SetRun =>
        /\ \A i \in Issued("Delete") :
              \A j \in Issued("Create") \cup Issued("CreateDirectorBackend") : i < j
        /\ \A j \in Issued("Create") :
              \A e \in st.sets[op.key] \ op.new :
                  e.name = calls[j].name =>
                      \E i \in Issued("Delete") : i < j /\ calls[i].name = e.name

\* A run that replaced an element under its name.
C4_Witness ==
    /\ SetRun /\ op.ret = "nil"
    /\ \E e \in st.sets[op.key] \ op.new, f \in op.new \ st.sets[op.key] :
          /\ e.name = f.name
          /\ \E i \in Issued("Delete"), j \in Issued("Create") :
                calls[i].name = e.name /\ calls[j].name = f.name

\* C5, as the specification states it: if the draft first holds exactly the
\* old set O and names are unique within O and within N, then after the
\* reconciliation returned nil the draft holds exactly N.
C5_DraftHoldsNew ==
    /\ SetRun /\ op.ret = "nil"
    /\ op.draft = st.sets[op.key]
    /\ UniqueNames(st.sets[op.key]) /\ UniqueNames(op.new)
    => ItemsOf(rem, 1, op.key) = op.new

C18_Delete404IsSuccess ==
    op.kind = "Process" =>
        \A i \in 1..Len(calls) :
            calls[i].op \in {"Delete", "DeleteWAF"} =>
                /\ calls[i].res = "http404" /\ i = Len(calls) =>
                      /\ op.ret = "nil"
                      /\ op.key # "waf" =>
                            /\ Difference(op.new, st.sets[op.key]) = {}
                            /\ Cardinality({j \in 1..i : calls[j].op = "Delete"})
                                  = Cardinality(Difference(st.sets[op.key], op.new))
                /\ calls[i].res \notin {"ok", "http404"} =>
                      op.ret = "err" /\ i = Len(calls)

\* A reconciliation whose first delete was answered 404 and which went on to
\* a second delete and to creates, and returned nil.
C18_Witness ==
    /\ op.kind = "Process" /\ op.ret = "nil" /\ Len(calls) >= 3
    /\ calls[1].op = "Delete" /\ calls[1].res = "http404"
    /\ calls[2].op = "Delete"
    /\ calls[Len(calls)].op = "Create" /\ calls[Len(calls)].res = "ok"

\* The run cloned a version.
Cloned == \E i \in Issued("CloneVersion") : calls[i].res = "ok"

\* C12, as the specification states it: after any successful Update,
\* cloned_version differs from active_version only if activate is false; and
\* whenever Update clones a version, cloned_version is the number CloneVersion
\* returned.
C12_ClonedDiffersOnlyIfNotActivate ==
    op.kind = "Update" =>
        /\ op.ret = "nil" /\ st.cloned_version # st.active_version => ~op.activate
        /\ Cloned /\ st.id # 0 =>
              st.cloned_version = op.lv /\ op.lv = Len(rem.versions)

\* C12, amended: after a successful Update that cloned a version,
\* cloned_version differs from active_version only if activate is false; and
\* whenever Update clones a version, cloned_version is the number CloneVersion
\* returned.
C12_ClonedVersion ==
    op.kind = "Update" =>
        /\ op.ret = "nil" /\ Cloned /\ st.cloned_version # st.active_version => ~op.activate
        /\ Cloned /\ st.id # 0 =>
              st.cloned_version = op.lv /\ op.lv = Len(rem.versions)

\* An Update with activate = false that cloned version 1: cloned_version is
\* 2, active_version still 1.
C12_Witness ==
    /\ op.kind = "Update" /\ op.ret = "nil" /\ ~op.activate /\ Cloned
    /\ st.cloned_version = 2 /\ st.active_version = 1

\* C13, as the specification states it: a service created with activate =
\* false is reported with active_version 1 after the Create, and with
\* active_version 2 after a following Update that changes the domain and has
\* activate = true.
C13_InactiveCreateThenUpdate ==
    /\ op.kind = "Create" /\ ~op.activate /\ op.ret = "nil" => st.active_version = 1
    /\ op.kind = "Update" /\ op.activate /\ op.needs /\ op.prevActive = 0 /\ op.ret = "nil"
          /\ rem.listed => st.active_version = 2

---------------------------------------------------------------------------
(* The waf block in the life cycle.  processWAF and flattenWAFs are at     *)
(* hand, their callers in Update and Read are not: Update is taken to      *)
(* count waf among the versioned attributes and to call processWAF for the *)
(* draft after the set-typed blocks, Read to list the firewalls of the     *)
(* active version and to record flattenWAFs of the list.                   *)

\* The strings a firewall's fields take: ValNames[v] for the fields val v.
ValNames == <<"v1", "v2", "v3", "v4">>

WafKeys == {"waf_id", "response_object", "prefetch_condition"}

\* The value flattenWAFs records under key k for the firewall w.
WafField(w, k) ==
    CASE k = "waf_id" -> w.ID
      [] k = "response_object" -> w.Response
      [] k = "prefetch_condition" -> w.PrefetchCondition

\* A wrong flattenWAFs, to compare with: one map for every firewall.
flattenWAFsAll(wafList) ==
    [i \in 1..Len(wafList) |->
       [k \in {x \in WafKeys : WafField(wafList[i], x) # ""} |-> WafField(wafList[i], k)]]

\* flattenWAFs: nothing for an empty list; else one map of the first
\* firewall, without the keys whose value is the empty string.
flattenWAFs(wafList) ==
    IF Len(wafList) = 0 THEN <<>>
    ELSE LET w == wafList[1]
             WAFMapString == [k \in WafKeys |-> WafField(w, k)]
             kept == {k \in WafKeys : WAFMapString[k] # ""}
         IN <<[k \in kept |-> WAFMapString[k]]>>

\* The firewalls of a version as ListWAFs returns them (ordered by id).
RECURSIVE WafListOf(_)
WafListOf(ws) ==
    IF ws = {} THEN <<>>
    ELSE LET w == CHOOSE x \in ws :
                    \A y \in ws : \E i, j \in 1..Len(WafIds) :
                        WafIds[i] = x.id /\ WafIds[j] = y.id /\ i <= j
         IN <<[ID |-> w.id, Response |-> ValNames[w.val],
               PrefetchCondition |-> ValNames[w.val]]>> \o WafListOf(ws \ {w})

\* d.Set("waf", ...) of the flattened list.
WafState(wl) ==
    IF Len(wl) = 0 THEN <<>>
    ELSE <<[val |-> CHOOSE v \in 1..Len(ValNames) : ValNames[v] = wl[1]["response_object"],
            waf_id |-> wl[1]["waf_id"]]>>

\* The end of Read: ctx is what Read has come to when it is about to return
\* nil for a service it found.
ReadWaf(ctx) ==
    LET v == ctx.rem.active
        c1 == Call(ctx, "ListWAFs", v, "waf", "", 0, ApiRead(ctx.rem))
        wl == flattenWAFs(WafListOf(c1.rem.versions[v].wafs))
    IN IF ctx.ret # "nil" \/ ctx.d.id = 0 \/ v = 0 THEN ctx
       ELSE IF c1.last # "ok" THEN ReturnErr(c1)
       ELSE [c1 EXCEPT !.d.waf = WafState(wl)]

resourceServiceV1ReadWaf(ctx) == ReadWaf(resourceServiceV1Read(ctx))

needsChangeWaf(ctx) == needsChange(ctx) \/ ctx.old.waf # ctx.d.waf

ProcessWafBlock(ctx) ==
    IF ctx.old.waf # ctx.d.waf THEN Process(ctx, "waf", ctx.lv) ELSE ctx

\* The steps of Update in program order; steps 3 to 8 are those under
\* needsChange.  A step runs only if the handler has not returned.
RECURSIVE UpdateWafSteps(_, _, _)
UpdateWafSteps(ctx, needs, i) ==
    IF i > 9 \/ ctx.ret # "run" THEN ctx
    ELSE UpdateWafSteps(
             CASE i = 1 -> UpdateNameComment(ctx)
               [] i = 2 -> UpdateVersionComment(ctx)
               [] i \in 3..8 /\ ~needs -> ctx
               [] i = 3 /\ needs -> DraftVersion(ctx)
               [] i = 4 /\ needs -> UpdateSettings(ctx)
               [] i = 5 /\ needs -> ProcessAll(ctx)
               [] i = 6 /\ needs -> ProcessWafBlock(ctx)
               [] i = 7 /\ needs -> ValidateVersion(ctx)
               [] i = 8 /\ needs -> ActivateVersion(ctx)
               [] i = 9 -> resourceServiceV1ReadWaf(ctx),
             needs, i + 1)

resourceServiceV1UpdateWaf(ctx) == UpdateWafSteps(ctx, needsChangeWaf(ctx), 1)

\* The configurations with a waf block: none or one firewall.
WafBlocks == {<<>>} \cup {<<[val |-> v]>> : v \in Vals}

WafConfigs ==
    {[name |-> ServiceName, version_comment |-> "", activate |-> TRUE,
      default_ttl |-> DefaultTTL,
      sets |-> [k \in BlockKeys |-> IF k = "domain" THEN {Elem("a", 1, {})} ELSE {}],
      waf |-> w] : w \in WafBlocks}

\* waf_id is computed: the plan keeps the recorded one, a new block has none.
PlannedWaf(s, c) ==
    [Planned(s, c) EXCEPT
        !.waf = IF c.waf = <<>> THEN <<>>
                ELSE <<[val |-> c.waf[1].val,
                        waf_id |-> IF s.waf = <<>> THEN "" ELSE s.waf[1].waf_id]>>]

OpRecWaf(kind, ctx0, ctx) ==
    [kind |-> kind, ret |-> ctx.ret, needs |-> needsChangeWaf(ctx0),
     oldWaf |-> ctx0.old.waf, newWaf |-> ctx0.d.waf,
     remActive |-> ctx0.rem.active, lv |-> ctx.lv]

\* The service was created without waf block; its version 1 is active.
InitWaf ==
    /\ st = [ZeroState EXCEPT !.id = 1, !.name = ServiceName, !.activate = TRUE,
                              !.default_ttl = DefaultTTL, !.active_version = 1,
                              !.sets["domain"] = {Elem("a", 1, {})}]
    /\ rem = [id |-> 1, listed |-> TRUE, name |-> ServiceName, active |-> 1,
              versions |-> <<[NewVersion EXCEPT !.locked = TRUE,
                                                !.items["domain"] = {Elem("a", 1, {})}]>>]
    /\ calls = <<>>
    /\ op = Idle

UpdateWaf(c) ==
    /\ op = Idle
    /\ st.id # 0
    /\ ~st.tainted
    /\ LET Run(f) == NewCtx(PlannedWaf(st, c), st, rem, f.failAt, "http500", f.valid)
           n == Len(resourceServiceV1UpdateWaf(Run([failAt |-> 0, valid |-> TRUE])).calls)
       IN /\ needsChangeWaf(Run([failAt |-> 0, valid |-> TRUE])) /\ st.active_version # 0
               => Len(rem.versions) < MaxWafVersions
          /\ \E f \in Faults(n) :
               LET ctx == resourceServiceV1UpdateWaf(Run(f))
               IN /\ st' = Saved(ctx)
                  /\ rem' = ctx.rem
                  /\ calls' = ctx.calls
                  /\ op' = OpRecWaf("Update", Run(f), ctx)

RefreshWaf ==
    /\ op = Idle
    /\ st.id # 0
    /\ LET Run(failAt) == NewCtx(st, st, rem, failAt, "http500", TRUE)
           n == Len(resourceServiceV1ReadWaf(Run(0)).calls)
       IN \E failAt \in 0..n :
            LET ctx == resourceServiceV1ReadWaf(Run(failAt))
            IN /\ st' = IF ctx.ret = "nil" THEN Saved(ctx) ELSE st
               /\ rem' = ctx.rem
               /\ calls' = ctx.calls
               /\ op' = OpRecWaf("Read", Run(failAt), ctx)

NextWaf ==
    \/ \E c \in WafConfigs : UpdateWaf(c)
    \/ RefreshWaf
    \/ EndRun

SpecWaf == InitWaf /\ [][NextWaf]_vars

\* The firewalls the active version holds.
ActiveWafs == IF rem.active = 0 THEN {} ELSE rem.versions[rem.active].wafs

---------------------------------------------------------------------------
(* The package block of a WebAssembly service: the handler                 *)
(* WASMPackageServiceAttributeHandler.  An element of the block is a map   *)
(* with the key filename.  The service here has version 1 active and       *)
(* version 2 as the draft; a version holds the uploaded package (or "")    *)
(* and its Loggly logging endpoints.                                       *)

PackageFiles == {"p1", "p2", "p3"}
PackageSets == SUBSET {[filename |-> f] : f \in PackageFiles}

PackageService(package) ==
    [id |-> 1, listed |-> TRUE, name |-> ServiceName, active |-> 1,
     versions |-> <<[locked |-> TRUE, package |-> package, loggly |-> {}],
                    [locked |-> FALSE, package |-> package, loggly |-> {}]>>]

\* ols.Difference(nls).List(): the elements in some fixed order.
RECURSIVE PackageList(_)
PackageList(S) ==
    IF S = {} THEN <<>>
    ELSE LET e == CHOOSE x \in S : TRUE IN <<e>> \o PackageList(S \ {e})

\* df["name"].(string): the type assertion panics when the map has no name.
buildDeleteLoggly(df) ==
    [panics |-> "name" \notin DOMAIN df, Name |-> IF "name" \in DOMAIN df THEN df["name"] ELSE ""]

buildCreateLoggly(df) ==
    [panics |-> "name" \notin DOMAIN df, Name |-> IF "name" \in DOMAIN df THEN df["name"] ELSE ""]

ApiDeleteLoggly(r, v, name) ==
    IF r.versions[v].locked THEN Reply("http403", r)
    ELSE IF name \notin r.versions[v].loggly THEN Reply("http404", r)
    ELSE Reply("ok", [r EXCEPT !.versions[v].loggly = @ \ {name}])

ApiCreateLoggly(r, v, name) ==
    IF r.versions[v].locked THEN Reply("http403", r)
    ELSE IF name \in r.versions[v].loggly THEN Reply("http409", r)
    ELSE Reply("ok", [r EXCEPT !.versions[v].loggly = @ \cup {name}])

RECURSIVE deleteLogglyLoop(_, _, _)
deleteLogglyLoop(ctx, ver, lst) ==
    IF lst = <<>> THEN ctx
    ELSE LET opts == buildDeleteLoggly(Head(lst))
             c1 == Call(ctx, "DeleteLoggly", ver, "logging_loggly", opts.Name, 0,
                        ApiDeleteLoggly(ctx.rem, ver, opts.Name))
         IN IF opts.panics THEN ReturnErr(ctx)
            ELSE IF DeleteFailed(c1.last) THEN ReturnErr(c1)
            ELSE deleteLogglyLoop(c1, ver, Tail(lst))

RECURSIVE createLogglyLoop(_, _, _)
createLogglyLoop(ctx, ver, lst) ==
    IF lst = <<>> THEN ctx
    ELSE LET opts == buildCreateLoggly(Head(lst))
             c1 == Call(ctx, "CreateLoggly", ver, "logging_loggly", opts.Name, 0,
                        ApiCreateLoggly(ctx.rem, ver, opts.Name))
         IN IF opts.panics THEN ReturnErr(ctx)
            ELSE IF c1.last # "ok" THEN ReturnErr(c1)
            ELSE createLogglyLoop(c1, ver, Tail(lst))

WASMPackageProcess(ctx, ver) ==
    LET ols == ctx.old.package
        nls == ctx.d.package
        removeLogglyLogging == PackageList(Difference(ols, nls))
        addLogglyLogging == PackageList(Difference(nls, ols))
        c1 == deleteLogglyLoop(ctx, ver, removeLogglyLogging)
    IN IF c1.ret # "run" THEN c1 ELSE createLogglyLoop(c1, ver, addLogglyLogging)

\* flattenLoggly gives one map per endpoint, with no key of the package
\* schema: d.Set records an element without filename for each.
WASMPackageRead(ctx) ==
    LET v == ctx.rem.active
        c1 == Call(ctx, "ListLoggly", v, "logging_loggly", "", 0, ApiRead(ctx.rem))
        ell == {[filename |-> ""] : l \in c1.rem.versions[v].loggly}
    IN IF c1.last # "ok" THEN ReturnErr(c1)
       ELSE ReturnNil([c1 EXCEPT !.d.package = ell])

DrawnPackage(new) == [kind |-> "drawn", new |-> new, ret |-> "run", changed |-> FALSE]

InitPackage ==
    /\ calls = <<>>
    /\ \E O \in PackageSets, N \in PackageSets, P \in PackageFiles \cup {""} :
         /\ st = [id |-> 1, package |-> O]
         /\ rem = PackageService(P)
         /\ op = DrawnPackage(N)

\* One apply as far as the package block goes: Process for the draft when
\* the block changed, then Read.
ApplyPackage ==
    /\ op.kind = "drawn"
    /\ LET d == [st EXCEPT !.package = op.new]
           Apply(ctx0) ==
               Then(IF ctx0.old.package # ctx0.d.package
                    THEN WASMPackageProcess(ctx0, 2) ELSE ctx0, WASMPackageRead)
           Run(failAt) == NewCtx(d, st, rem, failAt, "http500", TRUE)
           n == Len(Apply(Run(0)).calls)
       IN \E failAt \in 0..n :
            LET ctx == Apply(Run(failAt))
            IN /\ st' = ctx.d
               /\ rem' = ctx.rem
               /\ calls' = ctx.calls
               /\ op' = [op EXCEPT !.kind = "Package", !.ret = ctx.ret,
                                   !.changed = (st.package # op.new)]

NextPackage == ApplyPackage

SpecPackage == InitPackage /\ [][NextPackage]_vars

\* C14, as the specification states it: when the package block changes,
\* Process uploads the package for the draft and Read refreshes the package
\* attribute from the package of the active version, so that after a
\* successful apply the state holds exactly one package entry; the handler
\* issues no call for any other sub-resource type.
C14_PackageUploaded ==
    op.kind = "Package" /\ op.changed /\ op.new # {} =>
        /\ \E i \in 1..Len(calls) : calls[i].key = "package" /\ calls[i].ver = 2
        /\ \A i \in 1..Len(calls) : calls[i].key = "package"
        /\ op.ret = "nil" => Cardinality(st.package) = 1

---------------------------------------------------------------------------
(* flattenWAFs as a function of the remote list.  A field of a firewall is *)
(* a string, possibly the empty one.                                       *)

WafStructs ==
    [ID : {"", "w1"}, Response : {"", "v1"}, PrefetchCondition : {"", "v1"}]

WafLists == UNION {[1..n -> WafStructs] : n \in 0..MaxWafList}

InitFlatten ==
    /\ st = ZeroState
    /\ rem = NoService
    /\ calls = <<>>
    /\ \E wafList \in WafLists : op = [kind |-> "drawn", wafList |-> wafList, wl |-> <<>>]

Flatten ==
    /\ op.kind = "drawn"
    /\ op' = [op EXCEPT !.kind = "flattenWAFs", !.wl = flattenWAFs(op.wafList)]
    /\ UNCHANGED <<st, rem, calls>>

NextFlatten == Flatten

SpecFlatten == InitFlatten /\ [][NextFlatten]_vars

\* C15: flattenWAFs returns an empty result for an empty list and otherwise
\* exactly one map, built from the first firewall only: waf_id,
\* response_object and prefetch_condition are its ID, Response and
\* PrefetchCondition, and a key whose value is the empty string is left out.
C15_FlattenWAFs ==
    op.kind = "flattenWAFs" =>
        /\ Len(op.wafList) = 0 => op.wl = <<>>
        /\ Len(op.wafList) > 0 =>
              /\ Len(op.wl) = 1
              /\ DOMAIN op.wl[1] \subseteq WafKeys
              /\ \A k \in WafKeys :
                    LET v == CASE k = "waf_id" -> op.wafList[1].ID
                               [] k = "response_object" -> op.wafList[1].Response
                               [] k = "prefetch_condition" -> op.wafList[1].PrefetchCondition
                    IN IF v = "" THEN k \notin DOMAIN op.wl[1]
                       ELSE k \in DOMAIN op.wl[1] /\ op.wl[1][k] = v

\* Two firewalls, the first without prefetch condition, the second with all
\* fields: the result is one map of the first, without prefetch_condition.
C15_Witness ==
    /\ op.kind = "flattenWAFs" /\ Len(op.wafList) = 2
    /\ op.wafList[1] = [ID |-> "w1", Response |-> "v1", PrefetchCondition |-> ""]
    /\ op.wafList[2] = [ID |-> "w1", Response |-> "v1", PrefetchCondition |-> "v1"]
    /\ Len(op.wl) = 1 /\ DOMAIN op.wl[1] = {"waf_id", "response_object"}

---------------------------------------------------------------------------
(* One Update of a service whose blocks hold elements.  The old state is   *)
(* that of a service whose version 1 holds one element in each block of    *)
(* UpdateKeys and is active or not; the configuration changes the name,    *)
(* the version comment, default_ttl and the element of any of the blocks.  *)

UpdateKeys == {"condition", "domain", "healthcheck", "backend", "director", "header"}

OldSets == [k \in BlockKeys |-> IF k \in UpdateKeys THEN {Elem("a", 1, {})} ELSE {}]

\* The new blocks: those of changed hold another element of the same name (a
\* director that has a backend, for the others other fields).
NewSets(changed) ==
    [k \in BlockKeys |->
       IF k \notin changed THEN OldSets[k]
       ELSE IF k = "director" THEN {Elem("a", 1, {"a"})} ELSE {Elem("a", 2, {})}]

OldState(active) ==
    [ZeroState EXCEPT !.id = 1, !.name = ServiceName, !.activate = TRUE,
                      !.default_ttl = DefaultTTL, !.active_version = active,
                      !.sets = OldSets]

OldService(active) ==
    [id |-> 1, listed |-> TRUE, name |-> ServiceName, active |-> active,
     versions |-> <<[NewVersion EXCEPT !.locked = (active # 0), !.items = OldSets]>>]

UpdateConfigs ==
    {Config(n, vc, TRUE, t, NewSets(changed)) :
        n \in {ServiceName, "svc2"}, vc \in {"", "c"}, t \in TTLs, changed \in SUBSET UpdateKeys}

OpRecUpdate(ctx0, ctx) ==
    [kind |-> "Update", ret |-> ctx.ret, needs |-> needsChange(ctx0),
     name |-> (ctx0.old.name # ctx0.d.name),
     version_comment |-> (ctx0.old.version_comment # ctx0.d.version_comment),
     prevActive |-> ctx0.old.active_version, remActive |-> ctx0.rem.active, lv |-> ctx.lv]

InitUpdate ==
    /\ calls = <<>>
    /\ \E active \in {0, 1}, c \in UpdateConfigs :
         /\ st = OldState(active)
         /\ rem = OldService(active)
         /\ op = [kind |-> "drawn", config |-> c]

RunUpdate ==
    /\ op.kind = "drawn"
    /\ LET Run(f, failKind) == NewCtx(Planned(st, op.config), st, rem, f.failAt, failKind, f.valid)
           n == Len(resourceServiceV1Update(Run([failAt |-> 0, valid |-> TRUE], "http500")).calls)
       IN \E f \in Faults(n), failKind \in FaultKinds :
            /\ f.failAt = 0 => failKind = "http500"
            /\ LET ctx == resourceServiceV1Update(Run(f, failKind))
               IN /\ st' = Saved(ctx)
                  /\ rem' = ctx.rem
                  /\ calls' = ctx.calls
                  /\ op' = OpRecUpdate(Run(f, failKind), ctx)

NextUpdate == RunUpdate

SpecUpdate == InitUpdate /\ [][NextUpdate]_vars

\* The calls that reconcile a block, and those that only read.
SubCalls == {"Delete", "Create", "CreateDirectorBackend"}
ReadCalls == {"ListServices", "GetServiceDetails", "GetSettings", "List"}

\* Call i is a sub-resource call of the run.
IsSub(i) == calls[i].op \in SubCalls

\* Call i failed in the way that ends the reconciliation: a create with any
\* error, a delete with an error that is no HTTP 404.
SubFailed(i) ==
    /\ IsSub(i)
    /\ IF calls[i].op = "Delete" THEN calls[i].res \notin {"ok", "http404"}
       ELSE calls[i].res # "ok"

\* C16: if a sub-resource create call fails, or a delete call fails with
\* something other than HTTP 404, Update returns the error at once: the
\* failed call is the last call of the run, no ValidateVersion and no
\* ActivateVersion is issued, and active_version in the state is unchanged.
C16_FailedCallEndsUpdate ==
    op.kind = "Update" =>
        \A i \in 1..Len(calls) :
            SubFailed(i) =>
                /\ op.ret = "err"
                /\ i = Len(calls)
                /\ Issued("ValidateVersion") = {} /\ Issued("ActivateVersion") = {}
                /\ st.active_version = op.prevActive

\* An Update of an active service that changed several blocks: a delete
\* failed with a server error after other blocks had been reconciled.
C16_Witness ==
    /\ op.kind = "Update" /\ op.prevActive = 1 /\ op.ret = "err"
    /\ Len(calls) > 3
    /\ calls[Len(calls)].op = "Delete" /\ calls[Len(calls)].res = "http500"
    /\ calls[Len(calls)].key = "header"
    /\ \E i \in 1..Len(calls) : calls[i].op = "Create" /\ calls[i].key = "condition"
    /\ st.active_version = 1

\* C17: within one Update, all condition calls are issued before any call
\* for another block, all healthcheck calls before any backend call, and all
\* backend calls before any director or director-backend call.
C17_BlockOrder ==
    op.kind = "Update" =>
        \A i, j \in 1..Len(calls) :
            IsSub(i) /\ IsSub(j) /\ i < j =>
                /\ calls[j].key = "condition" => calls[i].key = "condition"
                /\ calls[j].key = "healthcheck" => calls[i].key # "backend"
                /\ calls[j].key = "backend" => calls[i].key # "director"

\* An Update that changed conditions, domains, healthchecks, backends,
\* directors and headers, every call succeeding.
C17_Witness ==
    /\ op.kind = "Update" /\ op.ret = "nil" /\ AllOk
    /\ \A k \in UpdateKeys :
          /\ \E i \in Issued("Delete") : calls[i].key = k
          /\ \E i \in Issued("Create") : calls[i].key = k
    /\ Issued("CreateDirectorBackend") # {}

\* C19: an Update in which only the name changed issues UpdateService and
\* then (when that succeeded) the calls of Read; it issues no CloneVersion, no
\* sub-resource call, no UpdateVersion, no UpdateSettings, no ValidateVersion
\* and no ActivateVersion, and the active version number is unchanged.
C19_NameOnly ==
    op.kind = "Update" /\ op.name /\ ~op.version_comment /\ ~op.needs =>
        /\ calls[1].op = "UpdateService"
        /\ \A i \in 2..Len(calls) : calls[i].op \in ReadCalls
        /\ calls[1].res = "ok" => Len(calls) >= 2 /\ calls[2].op = "ListServices"
        /\ calls[1].res # "ok" => Len(calls) = 1 /\ op.ret = "err"
        /\ st.active_version = op.prevActive /\ rem.active = op.remActive

\* An Update of an active service that only renamed it, every call succeeding.
C19_Witness ==
    /\ op.kind = "Update" /\ op.name /\ ~op.version_comment /\ ~op.needs
    /\ op.ret = "nil" /\ AllOk /\ op.prevActive = 1
    /\ rem.name = "svc2" /\ st.name = "svc2" /\ Len(calls) > 3

\* C20: an Update in which version_comment changed and no versioned
\* attribute changed issues UpdateVersion once (not at all if UpdateService
\* failed before), against the active version, or version 1 when
\* active_version is 0, and issues no CloneVersion, ValidateVersion or
\* ActivateVersion.
C20_VersionCommentOnly ==
    op.kind = "Update" /\ op.version_comment /\ ~op.needs =>
        /\ Cardinality(Issued("UpdateVersion")) <= 1
        /\ (\A i \in Issued("UpdateService") : calls[i].res = "ok") =>
              Cardinality(Issued("UpdateVersion")) = 1
        /\ \A i \in Issued("UpdateVersion") :
              calls[i].ver = IF op.prevActive = 0 THEN 1 ELSE op.prevActive
        /\ Issued("CloneVersion") = {}
        /\ Issued("ValidateVersion") = {} /\ Issued("ActivateVersion") = {}

\* An Update of a service without active version that only changed the
\* version comment: UpdateVersion went to version 1.
C20_Witness ==
    /\ op.kind = "Update" /\ op.version_comment /\ ~op.needs /\ ~op.name
    /\ op.prevActive = 0 /\ op.ret = "nil"
    /\ calls[1].op = "UpdateVersion" /\ calls[1].ver = 1 /\ calls[1].res = "ok"
    /\ rem.versions[1].comment = "c"

\* C21, as the specification states it: after a successful Update that
\* changed a versioned attribute with a version_comment that is not empty, the
\* version the Update changed carries that version_comment, be it a fresh
\* clone or the initial version 1.
C21_DraftCarriesComment ==
    op.kind = "Update" /\ op.needs /\ op.version_comment /\ op.ret = "nil" =>
        rem.versions[op.lv].comment = "c"

---------------------------------------------------------------------------
(* An apply, the refresh of the next plan and the apply of the same         *)
(* configuration again.  The service exists with one element in each block *)
(* of UpdateKeys, its version 1 active or not; the configuration sets       *)
(* activate, the version comment, default_ttl and the blocks condition,    *)
(* domain and director.  The refresh runs after an apply that returned     *)
(* nil, and the second apply after a refresh that returned nil.            *)

InitReapply ==
    /\ calls = <<>>
    /\ \E active \in {0, 1}, a \in BOOLEAN, vc \in {"", "c"}, t \in TTLs,
          changed \in SUBSET {"condition", "domain", "director"} :
         /\ st = OldState(active)
         /\ rem = OldService(active)
         /\ op = [kind |-> "drawn", config |-> Config(ServiceName, vc, a, t, NewSets(changed)),
                  ret |-> "nil", needs |-> FALSE, prevActive |-> active]

Apply ==
    /\ op.kind = "drawn"
    /\ LET Run(f) == NewCtx(Planned(st, op.config), st, rem, f.failAt, "http500", f.valid)
           n == Len(resourceServiceV1Update(Run([failAt |-> 0, valid |-> TRUE])).calls)
       IN \E f \in Faults(n) :
            LET ctx == resourceServiceV1Update(Run(f))
            IN /\ st' = Saved(ctx)
               /\ rem' = ctx.rem
               /\ calls' = ctx.calls
               /\ op' = [op EXCEPT !.kind = "Apply", !.ret = ctx.ret,
                                   !.needs = needsChange(Run(f))]

Refresh ==
    /\ op.kind = "Apply" /\ op.ret = "nil"
    /\ st.id # 0
    /\ LET Run(failAt) == NewCtx(st, st, rem, failAt, "http500", TRUE)
           n == Len(resourceServiceV1Read(Run(0)).calls)
       IN \E failAt \in 0..n :
            LET ctx == resourceServiceV1Read(Run(failAt))
            IN /\ st' = IF ctx.ret = "nil" THEN Saved(ctx) ELSE st
               /\ rem' = ctx.rem
               /\ calls' = ctx.calls
               /\ op' = [op EXCEPT !.kind = "Read", !.ret = ctx.ret, !.needs = FALSE]

Reapply ==
    /\ op.kind = "Read" /\ op.ret = "nil"
    /\ st.id # 0
    /\ LET Run(f) == NewCtx(Planned(st, op.config), st, rem, f.failAt, "http500", f.valid)
           n == Len(resourceServiceV1Update(Run([failAt |-> 0, valid |-> TRUE])).calls)
       IN \E f \in Faults(n) :
            LET ctx == resourceServiceV1Update(Run(f))
            IN /\ st' = Saved(ctx)
               /\ rem' = ctx.rem
               /\ calls' = ctx.calls
               /\ op' = [op EXCEPT !.kind = "Reapply", !.ret = ctx.ret,
                                   !.needs = needsChange(Run(f))]

SpecReapply == InitReapply /\ [][Apply \/ Refresh \/ Reapply]_vars

\* C22, as the specification states it: after an apply that returned nil and a
\* Read that returned nil, an Update with the same configuration finds no
\* changed versioned attribute and issues no CloneVersion and no sub-resource
\* call, whatever activate is and whether a version was active or not.
C22_ReapplyChangesNothing ==
    op.kind = "Reapply" =>
        /\ ~op.needs
        /\ \A i \in 1..Len(calls) : calls[i].op \notin SubCalls \cup {"CloneVersion"}

---------------------------------------------------------------------------
(* Delete (specification Spec). *)

---------------------------------------------------------------------------
(* processWAF with a waf block in the old and in the new state              *)
(* (specification SpecProcess). *)

\* C24, as the specification states it: with a waf block in the old and in
\* the new state, processWAF issues CreateWAF only if the firewall with the
\* recorded waf_id is absent from the version; unless a call failed before,
\* it then issues UpdateWAF, and when it created the firewall the UpdateWAF
\* names the id CreateWAF returned, not the recorded one.
C24_CreateOnlyIfAbsent ==
    WafRun /\ Len(st.waf) > 0 /\ Len(op.new) > 0 =>
        LET recorded == op.new[1].waf_id
            before == {w.id : w \in op.draft}
            created == {w.id : w \in rem.versions[1].wafs} \ before
        IN /\ Issued("CreateWAF") # {} => recorded \notin before
           /\ (\A i \in Issued("CreateWAF") : calls[i].res = "ok") =>
                 Cardinality(Issued("UpdateWAF")) = 1
           /\ \A i \in Issued("UpdateWAF") :
                 calls[i].name \in (IF Issued("CreateWAF") # {} THEN created ELSE {recorded})

---------------------------------------------------------------------------
(* flattenSnippets and flattenDynamicSnippets as functions of the list that *)
(* ListSnippets returned.  Name, Content and ID of a snippet are strings,   *)
(* Name and Content possibly empty; Type is a SnippetType and Priority an  *)
(* int, which the comparison with the empty string never prunes.           *)

\* A wrong flattenSnippets, to compare with: it does not skip dynamic snippets.
flattenSnippetsAll(snippetList) ==
    [i \in 1..Len(snippetList) |->
       LET snippet == snippetList[i]
           snippetMap == [name |-> snippet.Name, type |-> snippet.Type, content |-> snippet.Content]
           kept == {k \in {"name", "content"} : snippetMap[k] # ""} \cup {"type", "priority"}
       IN [k \in kept |-> IF k = "priority" THEN snippet.Priority ELSE snippetMap[k]]]

flattenSnippets(snippetList) ==
    LET static == SelectSeq(snippetList, LAMBDA snippet : snippet.Dynamic # 1)
    IN [i \in 1..Len(static) |->
          LET snippet == static[i]
              snippetMap == [name |-> snippet.Name, type |-> snippet.Type,
                             content |-> snippet.Content]
              kept == {k \in {"name", "content"} : snippetMap[k] # ""} \cup {"type", "priority"}
          IN [k \in kept |-> IF k = "priority" THEN snippet.Priority ELSE snippetMap[k]]]

flattenDynamicSnippets(dynamicSnippetList) ==
    LET dynamic == SelectSeq(dynamicSnippetList, LAMBDA snippet : snippet.Dynamic # 0)
    IN [i \in 1..Len(dynamic) |->
          LET dynamicSnippet == dynamic[i]
              dynamicSnippetMap == [snippet_id |-> dynamicSnippet.ID, name |-> dynamicSnippet.Name,
                                    type |-> dynamicSnippet.Type]
              kept == {k \in {"snippet_id", "name"} : dynamicSnippetMap[k] # ""}
                        \cup {"type", "priority"}
          IN [k \in kept |->
                IF k = "priority" THEN dynamicSnippet.Priority ELSE dynamicSnippetMap[k]]]

InitSnippets ==
    /\ st = ZeroState
    /\ rem = NoService
    /\ calls = <<>>
    /\ \E n \in 0..MaxSnippetList :
         \E snippetList \in [1..n -> [ID : {"s1", "s2"}, Name : {"", "a", "b"}, Type : {"recv"},
                                      Priority : {100}, Content : {"", "v1"}, Dynamic : {0, 1}]] :
            op = [kind |-> "drawn", snippetList |-> snippetList, vsl |-> <<>>,
                  dynamicSnippets |-> <<>>]

\* The refresh of the snippets in Read: both functions get the same list.
RefreshSnippets ==
    /\ op.kind = "drawn"
    /\ op' = [op EXCEPT !.kind = "flattenSnippets",
                        !.vsl = flattenSnippets(op.snippetList),
                        !.dynamicSnippets = flattenDynamicSnippets(op.snippetList)]
    /\ UNCHANGED <<st, rem, calls>>

SpecSnippets == InitSnippets /\ [][RefreshSnippets]_vars

\* C25: for a list of snippets whose Dynamic is 0 or 1, flattenSnippets and
\* flattenDynamicSnippets partition the list: the k-th map of flattenSnippets
\* is made of the k-th snippet with Dynamic = 0 and the k-th map of
\* flattenDynamicSnippets of the k-th snippet with Dynamic = 1, so every
\* snippet is in exactly one of the two results, in the order of the list.
C25_SnippetsPartitioned ==
    op.kind = "flattenSnippets"
      /\ (\A i \in 1..Len(op.snippetList) : op.snippetList[i].Dynamic \in {0, 1}) =>
        LET l == op.snippetList
            Of(f) == {i \in 1..Len(l) : l[i].Dynamic = f}
            Rank(i) == Cardinality({j \in Of(l[i].Dynamic) : j <= i})
            Has(m, k, v) == IF v = "" THEN k \notin DOMAIN m ELSE k \in DOMAIN m /\ m[k] = v
        IN /\ Len(op.vsl) = Cardinality(Of(0))
           /\ Len(op.dynamicSnippets) = Cardinality(Of(1))
           /\ \A i \in Of(0) :
                 LET m == op.vsl[Rank(i)]
                 IN /\ Has(m, "name", l[i].Name) /\ Has(m, "content", l[i].Content)
                    /\ "snippet_id" \notin DOMAIN m
           /\ \A i \in Of(1) :
                 LET m == op.dynamicSnippets[Rank(i)]
                 IN /\ Has(m, "name", l[i].Name) /\ Has(m, "snippet_id", l[i].ID)
                    /\ "content" \notin DOMAIN m

\* A dynamic snippet followed by a static one: each result holds one map.
C25_Witness ==
    /\ op.kind = "flattenSnippets" /\ Len(op.snippetList) = 2
    /\ op.snippetList[1].Dynamic = 1 /\ op.snippetList[1].Name = "a"
    /\ op.snippetList[2].Dynamic = 0 /\ op.snippetList[2].Name = "b"
    /\ Len(op.vsl) = 1 /\ op.vsl[1].name = "b"
    /\ Len(op.dynamicSnippets) = 1 /\ op.dynamicSnippets[1].name = "a"

====
